---- MODULE Spec2Model ----
(***************************************************************************)
(* Bit-bashed I2C master (src/bbi2c/i2c_master.c).                         *)
(*                                                                         *)
(* The master drives two open-drain lines, SCL and SDA.  Every routine of  *)
(* the source is an operator over a machine record                         *)
(*     m = [sda, scl : the master's output on each line (0 driven low,     *)
(*                      1 released),                                       *)
(*          n        : the number of clock waits made in this call,        *)
(*          log      : what the call did so far]                           *)
(* and yields [m |-> the machine afterwards, ret |-> the C return value].  *)
(* The peer on the bus is a record                                         *)
(*     [idle  : the SDA level the peer drives before the first clock,      *)
(*      stuck : 0, or the first clock wait from which it holds SCL low,    *)
(*      seq   : the SDA level it drives during clock n, for n <= Len(seq), *)
(*      first : afterwards, the 9 levels it drives during clocks 1..9,     *)
(*      rest  : and during every later group of 9 clocks].                 *)
(***************************************************************************)
EXTENDS Integers, Sequences, FiniteSets, TLC

VARIABLES
    i2c_devices_num,   \* static uint8_t i2c_devices_num
    i2c_devices,       \* static i2c_dev_t i2c_devices[I2C_DEVICES_NUM]
    sda_out,           \* per bus: the master's SDA output (0 low, 1 released)
    scl_out,           \* per bus: the master's SCL output (0 low, 1 released)
    req,               \* the request a caller is about to make
    pc,                \* number of calls the caller has made with req
    call,              \* the last call made: its operation and arguments
    ret,               \* the value the last call returned
    log,               \* what the last call did, in order
    buffer,            \* the caller's buffer after the last call
    inits,             \* history: the i2c_master_init calls made so far
    xfer,              \* a call taken one bit transfer at a time: its position
    callers            \* concurrent i2c_master_init calls: position and locals

vars == <<i2c_devices_num, i2c_devices, sda_out, scl_out, req, pc, call, ret, log, buffer, inits,
          xfer, callers>>

----------------------------------------------------------------------------
(* Program constants *)

I2C_DEVICES_NUM == 4

\* i2c_ret_t (i2c_master.h): success is 0, every error is negative.
I2C_OK == 0
I2C_ERROR_CONFLICT == -1
I2C_ERROR_TIMEOUT == -2

\* i2c_action_t (i2c_master.h): one bit per phase flag.
I2C_START == 1
I2C_STOP == 2
I2C_READ == 4
I2C_WRITE == 8

\* action & flag, as a C condition
HasFlag(action, flag) == (action \div flag) % 2 = 1

\* the flag as the bool a C function receives
Flag01(action, flag) == IF HasFlag(action, flag) THEN 1 ELSE 0

----------------------------------------------------------------------------
(* Bounds of the model *)

MaxSize == 3        \* largest buffer size of a transfer
MaxStuck == 10      \* latest clock wait at which the peer starts holding SCL
MaxCalls == 2       \* how often a caller repeats one request
MaxInits == 5       \* how many i2c_master_init calls are made
NumBuses == 2       \* bus configurations passed to i2c_master_init

----------------------------------------------------------------------------
(* Line driver interface (i2c_private.h) and the peer *)

Min2(a, b) == IF a < b THEN a ELSE b

Ev(op, v) == [op |-> op, v |-> v]

Note(m, op, v) == [m EXCEPT !.log = Append(@, Ev(op, v))]

\* bit k (0 is the first on the wire) of a 9-clock frame given as a number
FrameBit(frame, k) == (frame \div (2 ^ (8 - k))) % 2

\* The SDA level the peer drives when the master has made n clock waits.
PeerLevel(peer, n) ==
    IF n = 0 THEN peer.idle
    ELSE IF n <= Len(peer.seq) THEN peer.seq[n]
    ELSE FrameBit(IF n <= 9 THEN peer.first ELSE peer.rest, (n - 1) % 9)

\* i2c_sda_set (dev, state): drive SDA low (0) or release it (1).
i2c_sda_set(m, state) ==
    [m EXCEPT !.sda = state, !.log = Append(@, Ev("sda", state))]

\* i2c_scl_set (dev, state): drive SCL low (0) or release it (1).
i2c_scl_set(m, state) ==
    [m EXCEPT !.scl = state, !.log = Append(@, Ev("scl", state))]

\* i2c_sda_get (dev): the level of the open-drain line, low when the master
\* or the peer drives it low.
i2c_sda_get(m, peer) == Min2(m.sda, PeerLevel(peer, m.n))

\* i2c_scl_wait (dev): poll SCL until it reads high or the bounded wait
\* elapses.
i2c_scl_wait(m, peer) ==
    LET k == m.n + 1
        r == IF peer.stuck # 0 /\ k >= peer.stuck THEN I2C_ERROR_TIMEOUT ELSE I2C_OK
    IN [m |-> [m EXCEPT !.n = k, !.log = Append(@, Ev("wait", r))], ret |-> r]

----------------------------------------------------------------------------
(* Bit transfer engine *)

i2c_master_recv_bit(m, peer) ==
    LET Waited(w) ==
            IF w.ret # I2C_OK THEN w
            ELSE [m |-> i2c_scl_set(w.m, 0), ret |-> i2c_sda_get(w.m, peer)]
    IN Waited(i2c_scl_wait(i2c_scl_set(i2c_sda_set(Note(m, "recv_bit", 0), 1), 1), peer))

i2c_master_send_bit(m, peer, bit) ==
    LET Waited(w) ==
            IF w.ret # I2C_OK THEN w
            ELSE IF bit # 0 /\ i2c_sda_get(w.m, peer) = 0
                 THEN [m |-> Note(w.m, "lost", bit), ret |-> 0]
                 ELSE [m |-> i2c_scl_set(w.m, 0), ret |-> 1]
    IN Waited(i2c_scl_wait(i2c_scl_set(i2c_sda_set(Note(m, "send_bit", bit), bit), 1), peer))

i2c_master_recv_ack(m, peer) == i2c_master_recv_bit(Note(m, "recv_ack", 0), peer)

i2c_master_send_ack(m, peer) == i2c_master_send_bit(Note(m, "send_ack", 0), peer, 0)

i2c_master_send_nack(m, peer) == i2c_master_send_bit(Note(m, "send_nack", 0), peer, 1)

----------------------------------------------------------------------------
(* Byte transfer engine *)

RECURSIVE Or8(_, _)
\* a | b on non-negative integers
Or8(a, b) ==
    IF a = 0 THEN b
    ELSE IF b = 0 THEN a
    ELSE (IF a % 2 = 1 \/ b % 2 = 1 THEN 1 ELSE 0) + 2 * Or8(a \div 2, b \div 2)

RECURSIVE SendBits(_, _, _, _)
\* the loop of i2c_master_send_byte from iteration i, data being a uint8_t
SendBits(m, peer, data, i) ==
    LET Sent(r) ==
            IF r.ret # I2C_OK THEN r
            ELSE SendBits(r.m, peer, (data * 2) % 256, i + 1)
    IN IF i < 8
       THEN Sent(i2c_master_send_bit(m, peer, (data \div 128) % 2))
       ELSE i2c_master_recv_ack(m, peer)

i2c_master_send_byte(m, peer, data) ==
    SendBits(Note(m, "send_byte", data), peer, data, 0)

RECURSIVE RecvBits(_, _, _, _)
\* the loop of i2c_master_recv_byte from iteration i; wrote tells whether
\* *data was assigned, d is the value assigned
RecvBits(m, peer, d, i) ==
    LET Received(r) ==
            IF r.ret # I2C_OK THEN [m |-> r.m, ret |-> r.ret, wrote |-> FALSE, d |-> d]
            ELSE RecvBits(r.m, peer, Or8((d * 2) % 256, r.ret), i + 1)
        Acked(a) == [m |-> a.m, ret |-> a.ret, wrote |-> TRUE, d |-> d]
    IN IF i < 8
       THEN Received(i2c_master_recv_bit(m, peer))
       ELSE Acked(i2c_master_send_ack(Note(m, "store", d), peer))

\* Faulty variant: the bits received so far are stored when a bit fails
recv_byte_storing_partial(m, peer) ==
    LET Stored(r) == [r EXCEPT !.wrote = TRUE]
    IN Stored(RecvBits(Note(m, "recv_byte", 0), peer, 0, 0))

i2c_master_recv_byte(m, peer) ==
    RecvBits(Note(m, "recv_byte", 0), peer, 0, 0)

----------------------------------------------------------------------------
(* Transaction sequencer *)

\* Faulty variant: the start condition is sent without looking at SDA
send_start_unchecked(m, peer) ==
    [m |-> i2c_scl_set(i2c_sda_set(Note(m, "start", 0), 0), 0), ret |-> I2C_OK]

i2c_master_send_start(m, peer) ==
    IF i2c_sda_get(m, peer) = 0
    THEN [m |-> Note(m, "start", 0), ret |-> I2C_ERROR_CONFLICT]
    ELSE [m |-> i2c_scl_set(i2c_sda_set(Note(m, "start", 0), 0), 0), ret |-> I2C_OK]

\* Faulty variant: the stop condition is given up when the clock wait fails
send_stop_checking_wait(m, peer) ==
    LET Waited(w) ==
            IF w.ret # I2C_OK THEN w ELSE [m |-> i2c_sda_set(w.m, 1), ret |-> I2C_OK]
    IN Waited(i2c_scl_wait(i2c_scl_set(i2c_sda_set(Note(m, "stop", 0), 0), 1), peer))

\* the result of i2c_scl_wait is not looked at
i2c_master_send_stop(m, peer) ==
    [m   |-> i2c_sda_set(i2c_scl_wait(i2c_scl_set(i2c_sda_set(Note(m, "stop", 0), 0), 1),
                                      peer).m, 1),
     ret |-> I2C_OK]

\* Faulty variant: the direction bit is left out of the address byte
send_addr_no_direction(m, peer, slave, read) ==
    i2c_master_send_byte(Note(m, "send_addr", read), peer, (slave.id * 2) % 256)

\* read is the bool parameter: 0 or 1; the argument of send_byte is a uint8_t
i2c_master_send_addr(m, peer, slave, read) ==
    i2c_master_send_byte(Note(m, "send_addr", read), peer,
                         Or8(slave.id * 2, IF read # 0 THEN 1 ELSE 0) % 256)

\* a phase of i2c_master_transfer has returned r.ret
Phase(r) == [r EXCEPT !.m = Note(r.m, "phase_ret", r.ret)]

\* i2c_master_transfer, the block under action & I2C_START
TransferStart(m, peer, slave, action) ==
    LET Started(s) ==
            IF s.ret # I2C_OK THEN s
            ELSE Phase(i2c_master_send_addr(s.m, peer, slave,
                                            IF HasFlag(action, I2C_READ) THEN 1 ELSE 0))
    IN IF HasFlag(action, I2C_START)
       THEN Started(Phase(i2c_master_send_start(m, peer)))
       ELSE [m |-> m, ret |-> I2C_OK]

RECURSIVE TransferData(_, _, _, _, _, _)
\* i2c_master_transfer, the data loop from index i (data[i] is buf[i + 1])
TransferData(m, peer, buf, i, size, action) ==
    LET Moved(r, b) ==
            IF r.ret # I2C_OK THEN [m |-> r.m, ret |-> r.ret, buf |-> b, i |-> i]
            ELSE TransferData(r.m, peer, b, i + 1, size, action)
        Sent(r) == Moved(r, buf)
        Received(r) == Moved(Phase([m |-> r.m, ret |-> r.ret]),
                             IF r.wrote THEN [buf EXCEPT ![i + 1] = r.d] ELSE buf)
    IN IF i < size
       THEN IF HasFlag(action, I2C_WRITE)
            THEN Sent(Phase(i2c_master_send_byte(Note(m, "data", i), peer, buf[i + 1])))
            ELSE Received(i2c_master_recv_byte(Note(m, "data", i), peer))
       ELSE [m |-> m, ret |-> I2C_OK, buf |-> buf, i |-> i]

\* i2c_master_transfer, the block under action & I2C_STOP and the return
TransferStop(m, peer, action, i) ==
    LET Stopped(s) == IF s.ret # I2C_OK THEN s ELSE [m |-> s.m, ret |-> i]
    IN IF HasFlag(action, I2C_STOP)
       THEN Stopped(Phase(i2c_master_send_stop(m, peer)))
       ELSE [m |-> m, ret |-> i]

\* Faulty variant: the stop condition is sent although a data byte failed
transfer_stop_after_failure(m, peer, slave, buf, size, action) ==
    LET Stopped(e, b) == [m |-> e.m, ret |-> e.ret, buf |-> b]
        Moved(d) == Stopped(TransferStop(d.m, peer, action, d.i), d.buf)
        Started(s) ==
            IF s.ret # I2C_OK THEN [m |-> s.m, ret |-> s.ret, buf |-> buf]
            ELSE Moved(TransferData(s.m, peer, buf, 0, size, action))
    IN Started(TransferStart(Note(m, "transfer", action), peer, slave, action))

i2c_master_transfer(m, peer, slave, buf, size, action) ==
    LET Stopped(e, b) == [m |-> e.m, ret |-> e.ret, buf |-> b]
        Moved(d) ==
            IF d.ret # I2C_OK THEN [m |-> d.m, ret |-> d.ret, buf |-> d.buf]
            ELSE Stopped(TransferStop(d.m, peer, action, d.i), d.buf)
        Started(s) ==
            IF s.ret # I2C_OK THEN [m |-> s.m, ret |-> s.ret, buf |-> buf]
            ELSE Moved(TransferData(s.m, peer, buf, 0, size, action))
    IN Started(TransferStart(Note(m, "transfer", action), peer, slave, action))

\* the bytes of the i2c_addr_t object addr that a transfer of n bytes from
\* &addr reads (least significant byte first)
AddrBytes(addr, n) == [k \in 1..n |-> (addr \div (256 ^ (k - 1))) % 256]

\* Faulty variant: the second phase of addr_read reads into the buffer
addr_read_reading(m, peer, slave, addr, buf, size) ==
    LET First(a) ==
            IF a.ret < 0 THEN [m |-> a.m, ret |-> a.ret, buf |-> buf]
            ELSE i2c_master_transfer(a.m, peer, slave, buf, size, I2C_READ + I2C_STOP)
    IN First(i2c_master_transfer(m, peer, slave, AddrBytes(addr, slave.addr_bytes),
                                 slave.addr_bytes, I2C_START + I2C_WRITE))

i2c_master_addr_read(m, peer, slave, addr, buf, size) ==
    LET First(a) ==
            IF a.ret < 0 THEN [m |-> a.m, ret |-> a.ret, buf |-> buf]
            ELSE i2c_master_transfer(a.m, peer, slave, buf, size, I2C_WRITE + I2C_STOP)
    IN First(i2c_master_transfer(m, peer, slave, AddrBytes(addr, slave.addr_bytes),
                                 slave.addr_bytes, I2C_START + I2C_WRITE))

i2c_master_addr_write(m, peer, slave, addr, buf, size) ==
    LET First(a) ==
            IF a.ret < 0 THEN [m |-> a.m, ret |-> a.ret, buf |-> buf]
            ELSE i2c_master_transfer(a.m, peer, slave, buf, size, I2C_WRITE + I2C_STOP)
    IN First(i2c_master_transfer(m, peer, slave, AddrBytes(addr, slave.addr_bytes),
                                 slave.addr_bytes, I2C_START + I2C_WRITE))

----------------------------------------------------------------------------
(* Device registry *)

\* the address of i2c_devices[slot]; the null handle is 0
DevPtr(slot) == slot + 1

\* Faulty variant: the slot counter is not incremented
init_without_increment(reg, bus_cfg, slave_cfg) ==
    IF reg.num >= I2C_DEVICES_NUM
    THEN [reg |-> reg, ret |-> 0, log |-> <<>>]
    ELSE [reg |-> [num  |-> reg.num,
                   devs |-> [reg.devs EXCEPT ![reg.num] = [bus |-> bus_cfg, slave |-> slave_cfg]],
                   sda  |-> [reg.sda EXCEPT ![bus_cfg] = 1],
                   scl  |-> [reg.scl EXCEPT ![bus_cfg] = 1]],
          ret |-> DevPtr(reg.num),
          log |-> <<Ev("sda", 1), Ev("scl", 1)>>]

\* Faulty variant: a full table hands out its first slot again
init_reusing_slot(reg, bus_cfg, slave_cfg) ==
    LET slot == IF reg.num >= I2C_DEVICES_NUM THEN 0 ELSE reg.num
    IN [reg |-> [num  |-> IF reg.num >= I2C_DEVICES_NUM THEN reg.num ELSE reg.num + 1,
                 devs |-> [reg.devs EXCEPT ![slot] = [bus |-> bus_cfg, slave |-> slave_cfg]],
                 sda  |-> [reg.sda EXCEPT ![bus_cfg] = 1],
                 scl  |-> [reg.scl EXCEPT ![bus_cfg] = 1]],
        ret |-> DevPtr(slot),
        log |-> <<Ev("sda", 1), Ev("scl", 1)>>]

\* i2c_master_init on the registry reg = [num, devs, sda, scl]
i2c_master_init(reg, bus_cfg, slave_cfg) ==
    IF reg.num >= I2C_DEVICES_NUM
    THEN [reg |-> reg, ret |-> 0, log |-> <<>>]
    ELSE LET slot == reg.num
         IN [reg |-> [num  |-> (reg.num + 1) % 256,
                      devs |-> [reg.devs EXCEPT ![slot] = [bus |-> bus_cfg, slave |-> slave_cfg]],
                      sda  |-> [reg.sda EXCEPT ![bus_cfg] = 1],
                      scl  |-> [reg.scl EXCEPT ![bus_cfg] = 1]],
             ret |-> DevPtr(slot),
             log |-> <<Ev("sda", 1), Ev("scl", 1)>>]

----------------------------------------------------------------------------
(* The callers' data: configurations, buffers, peers *)

\* The slave configurations a caller may pass (i2c_slave_cfg_t objects):
\* configuration k has identifier (k - 1) % 128 and 1 or 2 address bytes.
\* A pointer to one is its index; the null pointer is 0.
SlaveTable == [k \in 1..256 |-> [id |-> (k - 1) % 128, addr_bytes |-> 1 + ((k - 1) \div 128)]]

SlavePtr(id, addr_bytes) == id + 1 + 128 * (addr_bytes - 1)

Slave50 == SlavePtr(80, 1)
Slave7F == SlavePtr(127, 1)
Slave7F2 == SlavePtr(127, 2)

Slaves == {Slave50, Slave7F, Slave7F2}

Buses == 1..NumBuses

DataBytes == {255, 165}

Buffers == UNION {[1..n -> DataBytes] : n \in 0..MaxSize}

Addrs == {65535, 421}

AllActions == 0..15

\* the frame in which the peer drives the bits of byte, then level ninth
Frame(byte, ninth) == 2 * byte + ninth

Silent == Frame(255, 1)     \* never drives SDA
Acking == Frame(255, 0)     \* drives SDA low in the 9th clock only
HoldLow == Frame(0, 0)      \* drives SDA low in all 9 clocks
SendA5 == Frame(165, 1)     \* sends 0xA5, releases SDA in the 9th clock
Send00 == Frame(0, 1)       \* sends 0x00, releases SDA in the 9th clock

FramePairs == {<<Silent, Silent>>, <<Acking, Acking>>, <<Acking, Silent>>,
               <<HoldLow, HoldLow>>, <<HoldLow, Send00>>, <<HoldLow, SendA5>>,
               <<Acking, SendA5>>}

PeerDesc(idle, stuck, first, rest) ==
    [idle |-> idle, stuck |-> stuck, seq |-> <<>>, first |-> first, rest |-> rest]

PeerDescs ==
    {PeerDesc(1, k, f[1], f[2]) : k \in 0..MaxStuck, f \in FramePairs}
    \cup {PeerDesc(0, 0, Silent, Silent), PeerDesc(0, 0, HoldLow, HoldLow)}

NoPeer == PeerDesc(1, 0, Silent, Silent)
AckPeer == PeerDesc(1, 0, Acking, Acking)

----------------------------------------------------------------------------
(* The state machine *)

Machine(bus) == [sda |-> sda_out[bus], scl |-> scl_out[bus], n |-> 0, log |-> <<>>]

Registry == [num |-> i2c_devices_num, devs |-> i2c_devices, sda |-> sda_out, scl |-> scl_out]

NoReq == [op |-> "none", slave |-> 0, action |-> 0, addr |-> 0, data |-> 0,
          buf |-> <<>>, peer |-> NoPeer]

NoCall == [op |-> "none", dev |-> 0, bus |-> 0, slave |-> 0, action |-> 0, addr |-> 0,
           data |-> 0, buf |-> <<>>, peer |-> NoPeer, sda0 |-> 1, scl0 |-> 1,
           after_stop |-> FALSE]

\* the call before the one now made on bus sent a stop condition on that bus
AfterStop(bus) == call.bus = bus /\ \E i \in DOMAIN log : log[i].op = "stop"

\* no call is being taken step by step
NoXfer == [at |-> "idle", part |-> 1, i |-> 0, k |-> 0, d |-> 0, r |-> 0, n |-> 0,
           peer |-> NoPeer]

\* no i2c_master_init call is in progress
NoCallers == <<>>

\* static storage is zeroed; the lines are inputs (released) after reset
EmptyRegistry ==
    [num  |-> 0,
     devs |-> [k \in 0..(I2C_DEVICES_NUM - 1) |-> [bus |-> 0, slave |-> 0]],
     sda  |-> [b \in Buses |-> 1],
     scl  |-> [b \in Buses |-> 1]]

Handles == {DevPtr(k) : k \in 0..(i2c_devices_num - 1)}

\* the SDA output of the master at each clock wait of a log
RECURSIVE Driven(_, _)
Driven(l, sda) ==
    IF l = <<>> THEN <<>>
    ELSE IF Head(l).op = "sda" THEN Driven(Tail(l), Head(l).v)
    ELSE IF Head(l).op = "wait" THEN <<sda>> \o Driven(Tail(l), sda)
    ELSE Driven(Tail(l), sda)

\* send_byte on one side, recv_byte on the other side sampling the SDA level
\* the sender drives in each of its clocks (and keeps driving afterwards)
Loopback(m, data) ==
    LET rx == [sda |-> 1, scl |-> 0, n |-> 0, log |-> <<>>]
        Received(s, r) ==
            [m |-> [s.m EXCEPT !.log = @ \o r.m.log], ret |-> r.ret,
             buf |-> IF r.wrote THEN <<r.d>> ELSE <<>>]
        Sent(s) ==
            Received(s, i2c_master_recv_byte(rx, [idle |-> 1, stuck |-> 0,
                                                  seq |-> Driven(s.m.log, m.sda),
                                                  first |-> s.m.sda * Silent,
                                                  rest |-> s.m.sda * Silent]))
    IN Sent(i2c_master_send_byte(m, AckPeer, data))

\* one call of an operation of the module on the machine m
Run(op, m, peer, slave, action, addr, data, buf) ==
    LET Sent(r) == [m |-> r.m, ret |-> r.ret, buf |-> buf]
        Received(r) == [m |-> r.m, ret |-> r.ret, buf |-> IF r.wrote THEN <<r.d>> ELSE buf]
    IN
    CASE op = "transfer" -> i2c_master_transfer(m, peer, slave, buf, Len(buf), action)
      [] op = "addr_read" -> i2c_master_addr_read(m, peer, slave, addr, buf, Len(buf))
      [] op = "addr_write" -> i2c_master_addr_write(m, peer, slave, addr, buf, Len(buf))
      [] op = "send_byte" -> Sent(i2c_master_send_byte(m, peer, data))
      [] op = "recv_byte" -> Received(i2c_master_recv_byte(m, peer))
      [] op = "loop" -> Loopback(m, data)

\* a caller calls op on the handle h
Do(op, h, action, addr, data, buf, pd) ==
    \E dev \in {i2c_devices[h - 1]} : \E m \in {Machine(dev.bus)} : \E r \in {Run(op, m, pd, SlaveTable[dev.slave], action, addr, data, buf)} :
       /\ call' = [op |-> op, dev |-> h, bus |-> dev.bus, slave |-> dev.slave,
                   action |-> action, addr |-> addr, data |-> data, buf |-> buf,
                   peer |-> pd, sda0 |-> m.sda, scl0 |-> m.scl,
                   after_stop |-> AfterStop(dev.bus)]
       /\ ret' = r.ret
       /\ log' = r.m.log
       /\ buffer' = r.buf
       /\ sda_out' = [sda_out EXCEPT ![dev.bus] = r.m.sda]
       /\ scl_out' = [scl_out EXCEPT ![dev.bus] = r.m.scl]
       /\ UNCHANGED <<i2c_devices_num, i2c_devices, inits, xfer, callers>>

\* i2c_master_init (bus_cfg, slave_cfg)
MasterInit(bus_cfg, slave_cfg) ==
    \E r \in {i2c_master_init(Registry, bus_cfg, slave_cfg)} :
       /\ Len(inits) < MaxInits
       /\ inits' = Append(inits, [bus |-> bus_cfg, slave |-> slave_cfg, ret |-> r.ret])
       /\ i2c_devices_num' = r.reg.num
       /\ i2c_devices' = r.reg.devs
       /\ sda_out' = r.reg.sda
       /\ scl_out' = r.reg.scl
       /\ call' = [NoCall EXCEPT !.op = "init", !.bus = bus_cfg, !.slave = slave_cfg,
                                 !.sda0 = sda_out[bus_cfg], !.scl0 = scl_out[bus_cfg]]
       /\ ret' = r.ret
       /\ log' = r.log
       /\ buffer' = <<>>
       /\ UNCHANGED <<req, pc, xfer, callers>>

MainPeers == {AckPeer, PeerDesc(1, 0, HoldLow, HoldLow), PeerDesc(1, 0, HoldLow, Send00),
              PeerDesc(1, 1, Silent, Silent)}

MainBuffers == {<<>>, <<255>>}

\* the configurations the callers pass to i2c_master_init, call after call
MainCfgs == <<<<1, Slave7F>>, <<1, Slave50>>>>

\* the configuration passed by the next i2c_master_init call
NextCfg == MainCfgs[(Len(inits) % Len(MainCfgs)) + 1]

MainActions == {I2C_START + I2C_WRITE + I2C_STOP, I2C_START + I2C_READ + I2C_STOP,
                I2C_WRITE + I2C_STOP, I2C_STOP}

Transfer(h, buf, action, pd) ==
    Do("transfer", h, action, 0, 0, buf, pd) /\ UNCHANGED <<req, pc>>

AddrRead(h, addr, buf, pd) ==
    Do("addr_read", h, 0, addr, 0, buf, pd) /\ UNCHANGED <<req, pc>>

AddrWrite(h, addr, buf, pd) ==
    Do("addr_write", h, 0, addr, 0, buf, pd) /\ UNCHANGED <<req, pc>>

InitWith(reg, r, h) ==
    /\ inits = h
    /\ i2c_devices_num = reg.num
    /\ i2c_devices = reg.devs
    /\ sda_out = reg.sda
    /\ scl_out = reg.scl
    /\ req = r
    /\ pc = 0
    /\ call = NoCall
    /\ ret = 0
    /\ log = <<>>
    /\ buffer = <<>>
    /\ xfer = NoXfer
    /\ callers = NoCallers

Init == InitWith(EmptyRegistry, NoReq, <<>>)

Next ==
    \/ \E c \in {NextCfg} : MasterInit(c[1], c[2])
    \/ \E h \in Handles, buf \in MainBuffers, a \in MainActions, pd \in MainPeers :
          Transfer(h, buf, a, pd)
    \/ \E h \in Handles : AddrRead(h, 65535, <<255>>, PeerDesc(1, 0, HoldLow, HoldLow))
    \/ \E h \in Handles : AddrWrite(h, 65535, <<255>>, PeerDesc(1, 0, HoldLow, HoldLow))

Spec == Init /\ [][Next]_vars

----------------------------------------------------------------------------
(* The registry alone: every sequence of i2c_master_init calls *)

NextReg == \E b \in Buses, s \in Slaves : MasterInit(b, s)

SpecReg == Init /\ [][NextReg]_vars

----------------------------------------------------------------------------
(* One device, one request: a caller initialises a device and makes one     *)
(* request, which it may repeat                                             *)

Req(op, slave, action, addr, data, buf, pd) ==
    [op |-> op, slave |-> slave, action |-> action, addr |-> addr, data |-> data,
     buf |-> buf, peer |-> pd]

\* the registry after i2c_master_init (bus 1, slave) on the empty registry
OneDevice(slave) == i2c_master_init(EmptyRegistry, 1, slave)

InitReq(op, slave, action, addr, data, buf, pd) ==
    InitWith(OneDevice(slave).reg, Req(op, slave, action, addr, data, buf, pd),
             <<[bus |-> 1, slave |-> slave, ret |-> OneDevice(slave).ret]>>)

\* transfers on a few slaves with every flag combination, buffer and peer;
\* address phases for every 7-bit identifier; addressed reads and writes
InitXfer ==
    \/ \E s \in Slaves, a \in AllActions, b \in Buffers, pd \in PeerDescs :
          InitReq("transfer", s, a, 0, 0, b, pd)
    \/ \E s \in 1..128, a \in AllActions,
          pd \in {NoPeer, AckPeer, PeerDesc(1, 0, HoldLow, HoldLow)} :
          InitReq("transfer", s, a, 0, 0, <<>>, pd)
    \/ \E op \in {"addr_read", "addr_write"}, s \in Slaves, ad \in Addrs,
          b \in Buffers, pd \in PeerDescs :
          InitReq(op, s, 0, ad, 0, b, pd)

Repeat(op) ==
    /\ req.op = op
    /\ pc < MaxCalls
    /\ pc' = pc + 1
    /\ UNCHANGED req
    /\ Do(op, DevPtr(0), req.action, req.addr, req.data, req.buf, req.peer)

NextXfer ==
    \/ Repeat("transfer")
    \/ Repeat("addr_read")
    \/ Repeat("addr_write")

SpecXfer == InitXfer /\ [][NextXfer]_vars

----------------------------------------------------------------------------
(* The byte transfer engine alone: one device that has sent a start         *)
(* condition (SCL low), and one byte to send, to receive or to loop back    *)

\* the registry of one device after i2c_master_send_start on the idle bus
AfterStart(slave) ==
    LET Started(reg, m) == [reg EXCEPT !.sda[1] = m.sda, !.scl[1] = m.scl]
        Made(reg) == Started(reg, i2c_master_send_start([sda |-> reg.sda[1], scl |-> reg.scl[1],
                                                         n |-> 0, log |-> <<>>], NoPeer).m)
    IN Made(OneDevice(slave).reg)

InitByteReq(op, data, pd) ==
    InitWith(AfterStart(Slave50), Req(op, Slave50, 0, 0, data, <<>>, pd),
             <<[bus |-> 1, slave |-> Slave50, ret |-> OneDevice(Slave50).ret]>>)

\* the peers that send the byte b and then release SDA
SenderPeers(b) == {PeerDesc(1, k, Frame(b, 1), Frame(b, 1)) : k \in 0..MaxStuck}

InitByte ==
    \/ \E b \in 0..255, pd \in PeerDescs : InitByteReq("send_byte", b, pd)
    \/ \E b \in 0..255 : \E pd \in SenderPeers(b) : InitByteReq("recv_byte", 0, pd)
    \/ \E b \in 0..255 : InitByteReq("loop", b, NoPeer)

NextByte ==
    \/ Repeat("send_byte")
    \/ Repeat("recv_byte")
    \/ Repeat("loop")

SpecByte == InitByte /\ [][NextByte]_vars

----------------------------------------------------------------------------
(* A call taken one bit transfer at a time.  In every step that waits for   *)
(* the clock the peer chooses the SDA level it drives and whether it holds  *)
(* SCL low beyond the bounded wait; xfer.peer records what it chose.        *)
(*     xfer.at   : "transfer" (entry of i2c_master_transfer), "start",      *)
(*                 "addr", "data", "stop", "return" (i2c_master_transfer    *)
(*                 has returned xfer.r), "done" (the call has returned)     *)
(*     xfer.part : 1, or 2 in the second transfer of addr_read/addr_write   *)
(*     xfer.i    : the data index i of i2c_master_transfer                  *)
(*     xfer.k    : the bit index of the byte loops (8: the acknowledge)     *)
(*     xfer.d    : data of send_byte, d of recv_byte                        *)
(*     xfer.n    : the clock waits made so far in the call                  *)

StepMachine == [sda |-> sda_out[call.bus], scl |-> scl_out[call.bus], n |-> xfer.n, log |-> log]

\* the peer that behaved as xfer.peer so far and now drives SDA to lvl and
\* holds SCL low beyond the wait (stk = 1) or not (stk = 0)
PeerThen(lvl, stk) ==
    [xfer.peer EXCEPT !.seq = Append(@, lvl), !.stuck = IF stk = 1 THEN xfer.n + 1 ELSE 0]

\* what the peer may do during one clock: drive SDA low or release it, or
\* hold SCL low beyond the wait (SDA is then not looked at)
PeerMoves == {<<0, 0>>, <<1, 0>>, <<1, 1>>}

StepSlave == SlaveTable[call.slave]

\* the action argument of the i2c_master_transfer call in progress
StepAction ==
    IF call.op = "transfer" THEN call.action
    ELSE IF xfer.part = 1 THEN I2C_START + I2C_WRITE ELSE I2C_WRITE + I2C_STOP

\* the array its buffer argument points to: &addr, or the caller's buffer
StepData ==
    IF call.op # "transfer" /\ xfer.part = 1
    THEN AddrBytes(call.addr, StepSlave.addr_bytes)
    ELSE buffer

StepSize == Len(StepData)

\* the argument i2c_master_send_addr passes to i2c_master_send_byte
AddrByte(slave, read) == Or8(slave.id * 2, IF read # 0 THEN 1 ELSE 0) % 256

\* i2c_master_transfer returns v
Returned(v) == [xfer EXCEPT !.at = "return", !.r = v]

\* Faulty variant: the data loop does not advance its index
loop_without_increment(i) ==
    [xfer EXCEPT !.at = IF xfer.i < StepSize THEN "data"
                        ELSE IF HasFlag(StepAction, I2C_STOP) THEN "stop" ELSE "return",
                 !.k = 0,
                 !.d = IF xfer.i < StepSize /\ HasFlag(StepAction, I2C_WRITE)
                       THEN StepData[xfer.i + 1] ELSE 0,
                 !.r = xfer.i]

\* the data loop of i2c_master_transfer arrives at index i: the next byte,
\* or the stop block, or return i
LoopAt(i) ==
    [xfer EXCEPT !.at = IF i < StepSize THEN "data"
                        ELSE IF HasFlag(StepAction, I2C_STOP) THEN "stop" ELSE "return",
                 !.i = i,
                 !.k = 0,
                 !.d = IF i < StepSize /\ HasFlag(StepAction, I2C_WRITE) THEN StepData[i + 1] ELSE 0,
                 !.r = i]

\* the machine when bit k of a byte is about to be transferred: before bit 0
\* the byte routine has just been entered
ByteEntered(byte_op) ==
    IF xfer.k # 0 THEN StepMachine
    ELSE IF xfer.at = "addr"
         THEN Note(Note(StepMachine, "send_addr", Flag01(StepAction, I2C_READ)),
                   "send_byte", xfer.d)
         ELSE Note(Note(StepMachine, "data", xfer.i), byte_op, xfer.d)

\* the step leaves the lines and the log as m has them; the peer has behaved
\* as p; the call is at x
Advance(m, p, x) ==
    /\ sda_out' = [sda_out EXCEPT ![call.bus] = m.sda]
    /\ scl_out' = [scl_out EXCEPT ![call.bus] = m.scl]
    /\ log' = m.log
    /\ xfer' = [x EXCEPT !.n = m.n, !.peer = p]
    /\ UNCHANGED <<i2c_devices_num, i2c_devices, req, pc, call, ret, inits, callers>>

\* a bit of a byte loop returned r: if (ret != I2C_OK) return ret, up to
\* i2c_master_transfer, else go on at x
AfterBit(r, p, x) ==
    IF r.ret # I2C_OK THEN Advance(Phase(r).m, p, Returned(r.ret)) ELSE Advance(r.m, p, x)

\* a phase of i2c_master_transfer returned r: if (ret != I2C_OK) return ret
AfterPhase(r, p, x) ==
    IF r.ret # I2C_OK THEN Advance(r.m, p, Returned(r.ret)) ELSE Advance(r.m, p, x)

SendingByte == xfer.at = "addr" \/ (xfer.at = "data" /\ HasFlag(StepAction, I2C_WRITE))

ReceivingByte == xfer.at = "data" /\ ~HasFlag(StepAction, I2C_WRITE)

\* a caller calls op with the request req on the only device
StepCall(op) ==
    /\ req.op = op
    /\ xfer.at \in {"idle", "done"}
    /\ pc < MaxCalls
    /\ pc' = pc + 1
    /\ \E dev \in {i2c_devices[0]}, idle \in {0, 1} :
          /\ call' = [op |-> op, dev |-> DevPtr(0), bus |-> dev.bus, slave |-> dev.slave,
                      action |-> req.action, addr |-> req.addr, data |-> req.data,
                      buf |-> req.buf, peer |-> PeerDesc(idle, 0, Silent, Silent),
                      sda0 |-> sda_out[dev.bus], scl0 |-> scl_out[dev.bus],
                      after_stop |-> AfterStop(dev.bus)]
          /\ xfer' = [NoXfer EXCEPT !.at = "transfer", !.peer = PeerDesc(idle, 0, Silent, Silent)]
    /\ log' = <<>>
    /\ buffer' = req.buf
    /\ ret' = 0
    /\ UNCHANGED <<i2c_devices_num, i2c_devices, sda_out, scl_out, req, inits, callers>>

\* i2c_master_transfer is entered
StepEnter ==
    /\ xfer.at = "transfer"
    /\ log' = Append(log, Ev("transfer", StepAction))
    /\ xfer' = IF HasFlag(StepAction, I2C_START) THEN [xfer EXCEPT !.at = "start"] ELSE LoopAt(0)
    /\ UNCHANGED <<i2c_devices_num, i2c_devices, sda_out, scl_out, req, pc, call, ret, buffer,
                   inits, callers>>

\* ret = i2c_master_send_start (dev)
StepStart ==
    /\ xfer.at = "start"
    /\ \E r \in {Phase(i2c_master_send_start(StepMachine, xfer.peer))} :
          AfterPhase(r, xfer.peer,
                     [xfer EXCEPT !.at = "addr", !.k = 0,
                                  !.d = AddrByte(StepSlave, Flag01(StepAction, I2C_READ))])
    /\ UNCHANGED buffer

\* ret = i2c_master_send_bit (dev, (data >> 7) & 1); data <<= 1
StepSendBit ==
    /\ SendingByte
    /\ xfer.k < 8
    /\ \E o \in PeerMoves : \E p \in {PeerThen(o[1], o[2])} :
       \E r \in {i2c_master_send_bit(ByteEntered("send_byte"), p, (xfer.d \div 128) % 2)} :
          AfterBit(r, p, [xfer EXCEPT !.k = @ + 1, !.d = (@ * 2) % 256])
    /\ UNCHANGED buffer

\* return i2c_master_recv_ack (dev), and the test of it in i2c_master_transfer
StepRecvAck ==
    /\ SendingByte
    /\ xfer.k = 8
    /\ \E o \in PeerMoves : \E p \in {PeerThen(o[1], o[2])} :
       \E r \in {Phase(i2c_master_recv_ack(StepMachine, p))} :
          AfterPhase(r, p, LoopAt(IF xfer.at = "addr" THEN 0 ELSE xfer.i + 1))
    /\ UNCHANGED buffer

\* ret = i2c_master_recv_bit (dev); d = (d << 1) | ret
StepRecvBit ==
    /\ ReceivingByte
    /\ xfer.k < 8
    /\ \E o \in PeerMoves : \E p \in {PeerThen(o[1], o[2])} :
       \E r \in {i2c_master_recv_bit(ByteEntered("recv_byte"), p)} :
          AfterBit(r, p, [xfer EXCEPT !.k = @ + 1, !.d = Or8((@ * 2) % 256, r.ret)])
    /\ UNCHANGED buffer

\* *data = d; return i2c_master_send_ack (dev), and the test of it
StepSendAck ==
    /\ ReceivingByte
    /\ xfer.k = 8
    /\ buffer' = [buffer EXCEPT ![xfer.i + 1] = xfer.d]
    /\ \E o \in PeerMoves : \E p \in {PeerThen(o[1], o[2])} :
       \E r \in {Phase(i2c_master_send_ack(Note(StepMachine, "store", xfer.d), p))} :
          AfterPhase(r, p, LoopAt(xfer.i + 1))

\* ret = i2c_master_send_stop (dev); return i
StepStop ==
    /\ xfer.at = "stop"
    /\ \E stk \in {0, 1} : \E p \in {PeerThen(1, stk)} :
       \E r \in {Phase(i2c_master_send_stop(StepMachine, p))} :
          AfterPhase(r, p, Returned(xfer.i))
    /\ UNCHANGED buffer

\* i2c_master_transfer has returned: to the caller, or to addr_read/addr_write,
\* which test ret < 0 after the first transfer and return the second's result
StepReturn ==
    /\ xfer.at = "return"
    /\ IF call.op = "transfer" \/ xfer.part = 2 \/ xfer.r < 0
       THEN ret' = xfer.r /\ xfer' = [xfer EXCEPT !.at = "done"]
       ELSE ret' = ret /\ xfer' = [xfer EXCEPT !.at = "transfer", !.part = 2, !.i = 0, !.k = 0,
                                                !.d = 0]
    /\ UNCHANGED <<i2c_devices_num, i2c_devices, sda_out, scl_out, req, pc, call, log, buffer,
                   inits, callers>>

\* the empty buffer, and buffers of MaxSize bytes 0xFF (a peer holding SDA
\* low lets them pass), the last byte being any of DataBytes
StepBuffers ==
    {<<>>} \cup {[k \in 1..MaxSize |-> IF k < MaxSize THEN 255 ELSE last] : last \in DataBytes}

InitStep ==
    \/ \E s \in {Slave7F}, a \in AllActions, b \in StepBuffers :
          InitReq("transfer", s, a, 0, 0, b, NoPeer)
    \/ \E op \in {"addr_read", "addr_write"}, s \in {Slave7F, Slave7F2}, ad \in Addrs,
          b \in StepBuffers :
          InitReq(op, s, 0, ad, 0, b, NoPeer)

NextStep ==
    \/ StepCall("transfer")
    \/ StepCall("addr_read")
    \/ StepCall("addr_write")
    \/ StepEnter
    \/ StepStart
    \/ StepSendBit
    \/ StepRecvAck
    \/ StepRecvBit
    \/ StepSendAck
    \/ StepStop
    \/ StepReturn

\* The caller's thread keeps running: a call that can take a step takes it
\* (every clock wait returns, with success or with the timeout error).
SpecStep == InitStep /\ [][NextStep]_vars /\ WF_vars(NextStep)

\* the call in progress has returned what the operation, taken as a whole
\* against the peer as it behaved, returns
StepMatchesCall ==
    xfer.at = "done"
    => \E w \in {Run(call.op, [sda |-> call.sda0, scl |-> call.scl0, n |-> 0, log |-> <<>>],
                     xfer.peer, StepSlave, call.action, call.addr, call.data, call.buf)} :
          /\ ret = w.ret
          /\ log = w.m.log
          /\ buffer = w.buf
          /\ sda_out[call.bus] = w.m.sda
          /\ scl_out[call.bus] = w.m.scl

----------------------------------------------------------------------------
(* Two callers in i2c_master_init at the same time.  Nothing in the routine *)
(* serializes them, so its statements interleave; each caller has its own   *)
(* arguments and its own local dev:                                         *)
(*     callers.proc[c].at  : "idle", "check" (line 275), "select" (278),    *)
(*                           "load" and "store" (the two halves of          *)
(*                           i2c_devices_num++, 279), "bind_bus" (281),     *)
(*                           "bind_slave" (282), "release" (284-285),       *)
(*                           "return" (276 or 287)                          *)
(*     callers.proc[c].dev : the slot dev points to                         *)
(*     callers.proc[c].tmp : the counter value loaded by the increment      *)
(*     callers.overlapped  : some call began while another was in progress  *)

RaceCallers == {1, 2}

\* the configurations caller c passes
RaceCfg(c) == [bus |-> ((c - 1) % NumBuses) + 1, slave |-> SlavePtr(c, 1)]

IdleCaller == [at |-> "idle", dev |-> 0, tmp |-> 0, bus |-> 0, slave |-> 0, ret |-> 0]

InRace(c) == callers.proc[c].at # "idle"

\* caller c goes on at position at, callers.proc[c] being otherwise as p
CallerAt(c, p, at) == [callers EXCEPT !.proc[c] = [p EXCEPT !.at = at]]

\* if (i2c_devices_num >= I2C_DEVICES_NUM)
TableFull(num) == num >= I2C_DEVICES_NUM

\* Faulty variant: the counter is stored back as it was loaded
not_incremented(v) == v

\* i2c_devices_num++ on the loaded value, a uint8_t
Incremented(v) == (v + 1) % 256

\* dev points into the table
InTable(slot) == slot \in DOMAIN i2c_devices

\* caller c calls i2c_master_init (bus_cfg, slave_cfg)
RaceCall(c) ==
    /\ ~InRace(c)
    /\ Len(inits) + Cardinality({x \in RaceCallers : InRace(x)}) < MaxInits
    /\ callers' = [callers EXCEPT
                     !.proc[c] = [IdleCaller EXCEPT !.at = "check", !.bus = RaceCfg(c).bus,
                                                    !.slave = RaceCfg(c).slave],
                     !.overlapped = @ \/ \E x \in RaceCallers : InRace(x)]
    /\ UNCHANGED <<i2c_devices_num, i2c_devices, sda_out, scl_out, req, pc, call, ret, log,
                   buffer, inits, xfer>>

\* if (i2c_devices_num >= I2C_DEVICES_NUM) return 0;
RaceCheck(c) ==
    /\ callers.proc[c].at = "check"
    /\ callers' = IF TableFull(i2c_devices_num)
                  THEN CallerAt(c, [callers.proc[c] EXCEPT !.ret = 0], "return")
                  ELSE CallerAt(c, callers.proc[c], "select")
    /\ UNCHANGED <<i2c_devices_num, i2c_devices, sda_out, scl_out, req, pc, call, ret, log,
                   buffer, inits, xfer>>

\* dev = i2c_devices + i2c_devices_num;
RaceSelect(c) ==
    /\ callers.proc[c].at = "select"
    /\ callers' = CallerAt(c, [callers.proc[c] EXCEPT !.dev = i2c_devices_num,
                                                   !.ret = DevPtr(i2c_devices_num)], "load")
    /\ UNCHANGED <<i2c_devices_num, i2c_devices, sda_out, scl_out, req, pc, call, ret, log,
                   buffer, inits, xfer>>

\* i2c_devices_num++, the load
RaceLoad(c) ==
    /\ callers.proc[c].at = "load"
    /\ callers' = CallerAt(c, [callers.proc[c] EXCEPT !.tmp = i2c_devices_num], "store")
    /\ UNCHANGED <<i2c_devices_num, i2c_devices, sda_out, scl_out, req, pc, call, ret, log,
                   buffer, inits, xfer>>

\* i2c_devices_num++, the store
RaceStore(c) ==
    /\ callers.proc[c].at = "store"
    /\ i2c_devices_num' = Incremented(callers.proc[c].tmp)
    /\ callers' = CallerAt(c, callers.proc[c], "bind_bus")
    /\ UNCHANGED <<i2c_devices, sda_out, scl_out, req, pc, call, ret, log, buffer, inits, xfer>>

\* dev->bus = bus_cfg; a dev beyond the table writes outside the table
RaceBindBus(c) ==
    /\ callers.proc[c].at = "bind_bus"
    /\ i2c_devices' = IF InTable(callers.proc[c].dev)
                      THEN [i2c_devices EXCEPT ![callers.proc[c].dev].bus = callers.proc[c].bus]
                      ELSE i2c_devices
    /\ callers' = CallerAt(c, callers.proc[c], "bind_slave")
    /\ UNCHANGED <<i2c_devices_num, sda_out, scl_out, req, pc, call, ret, log, buffer, inits,
                   xfer>>

\* dev->slave = slave_cfg;
RaceBindSlave(c) ==
    /\ callers.proc[c].at = "bind_slave"
    /\ i2c_devices' = IF InTable(callers.proc[c].dev)
                      THEN [i2c_devices EXCEPT ![callers.proc[c].dev].slave = callers.proc[c].slave]
                      ELSE i2c_devices
    /\ callers' = CallerAt(c, callers.proc[c], "release")
    /\ UNCHANGED <<i2c_devices_num, sda_out, scl_out, req, pc, call, ret, log, buffer, inits,
                   xfer>>

\* i2c_sda_set (dev, 1); i2c_scl_set (dev, 1); on the bus dev->bus names now
RaceRelease(c) ==
    /\ callers.proc[c].at = "release"
    /\ \E bus \in {IF InTable(callers.proc[c].dev) THEN i2c_devices[callers.proc[c].dev].bus
                   ELSE callers.proc[c].bus} :
          /\ sda_out' = [sda_out EXCEPT ![bus] = 1]
          /\ scl_out' = [scl_out EXCEPT ![bus] = 1]
    /\ callers' = CallerAt(c, callers.proc[c], "return")
    /\ UNCHANGED <<i2c_devices_num, i2c_devices, req, pc, call, ret, log, buffer, inits, xfer>>

\* return 0; or return dev;
RaceReturn(c) ==
    /\ callers.proc[c].at = "return"
    /\ inits' = Append(inits, [bus |-> callers.proc[c].bus, slave |-> callers.proc[c].slave,
                               ret |-> callers.proc[c].ret])
    /\ ret' = callers.proc[c].ret
    /\ callers' = CallerAt(c, callers.proc[c], "idle")
    /\ UNCHANGED <<i2c_devices_num, i2c_devices, sda_out, scl_out, req, pc, call, log, buffer,
                   xfer>>

InitRace ==
    /\ inits = <<>>
    /\ i2c_devices_num = EmptyRegistry.num
    /\ i2c_devices = EmptyRegistry.devs
    /\ sda_out = EmptyRegistry.sda
    /\ scl_out = EmptyRegistry.scl
    /\ req = NoReq
    /\ pc = 0
    /\ call = NoCall
    /\ ret = 0
    /\ log = <<>>
    /\ buffer = <<>>
    /\ xfer = NoXfer
    /\ callers = [proc |-> [c \in RaceCallers |-> IdleCaller], overlapped |-> FALSE]

NextRace ==
    \E c \in RaceCallers :
       \/ RaceCall(c)
       \/ RaceCheck(c)
       \/ RaceSelect(c)
       \/ RaceLoad(c)
       \/ RaceStore(c)
       \/ RaceBindBus(c)
       \/ RaceBindSlave(c)
       \/ RaceRelease(c)
       \/ RaceReturn(c)

SpecRace == InitRace /\ [][NextRace]_vars

----------------------------------------------------------------------------
(* Reading the log of a call *)

Positions(l, op) == {i \in DOMAIN l : l[i].op = op}

Count(l, op) == Cardinality(Positions(l, op))

Values(l) == [i \in DOMAIN l |-> l[i].v]

IsSendBit(e) == e.op = "send_bit"

IsPhaseStart(e) == e.op \in {"start", "send_addr", "data", "stop"}

\* the values of the send_bit calls of a log, in order
BitsSent(l) == Values(SelectSeq(l, IsSendBit))

\* the 8 bits of a byte, most significant first
ByteBits(b) == [k \in 1..8 |-> (b \div (2 ^ (8 - k))) % 2]

\* the phases a transfer begins, in order
PhasesBegun(l) == SelectSeq(l, IsPhaseStart)

\* the phases the flags and the size ask for, in order
Plan(action, size) ==
    (IF HasFlag(action, I2C_START) THEN <<"start", "send_addr">> ELSE <<>>)
    \o [k \in 1..size |-> "data"]
    \o (IF HasFlag(action, I2C_STOP) THEN <<"stop">> ELSE <<>>)

\* every phase the flags and the size ask for was carried out in full: the
\* start condition, 9 bit transfers for the address byte and for each data
\* byte, the stop condition, and no clock wait timed out
AllPhasesDone(l, action, size) ==
    /\ Count(l, "start") = Flag01(action, I2C_START)
    /\ Count(l, "send_addr") = Flag01(action, I2C_START)
    /\ Count(l, "data") = size
    /\ Count(l, "send_bit") + Count(l, "recv_bit") = 9 * (Flag01(action, I2C_START) + size)
    /\ Count(l, "stop") = Flag01(action, I2C_STOP)
    /\ \A i \in Positions(l, "wait") : l[i].v = I2C_OK

\* SDA reads low when the call begins
SdaLowAtEntry == Min2(call.sda0, call.peer.idle) = 0

WaitTimedOut(l) == \E i \in DOMAIN l : l[i] = Ev("wait", I2C_ERROR_TIMEOUT)

----------------------------------------------------------------------------
(* Claims *)

\* C1: a transfer with START|WRITE|STOP on an idle bus, the peer acknowledging
\* every byte and never stretching the clock, returns the buffer size and
\* issues exactly one start condition (before the address byte) and exactly
\* one stop condition (after the last data byte).
C1_FullWriteReturnsSize ==
    (/\ call.op = "transfer"
     /\ call.action = I2C_START + I2C_WRITE + I2C_STOP
     /\ call.sda0 = 1 /\ call.scl0 = 1
     /\ call.peer = AckPeer)
    => /\ ret = Len(call.buf)
       /\ Count(log, "start") = 1
       /\ Count(log, "stop") = 1
       /\ \A i \in Positions(log, "start"), j \in Positions(log, "send_byte") : i < j
       /\ \A i \in Positions(log, "stop"), j \in Positions(log, "send_byte") : j < i

\* C2: i2c_master_transfer returns either a negative error code or the
\* buffer size, and the size only when every requested phase completed.
C2_ReturnIsErrorOrSize ==
    call.op = "transfer"
    => \/ ret < 0
       \/ /\ ret = Len(call.buf)
          /\ AllPhasesDone(log, call.action, Len(call.buf))

\* C3: send_byte against an acknowledging, non-stretching peer makes exactly
\* 8 bit transfers carrying bit 7 down to bit 0 of the byte, then one
\* acknowledge receive, and returns the acknowledge bit.
C3_SendByteMsbFirst ==
    (call.op = "send_byte" /\ call.peer = AckPeer)
    => /\ BitsSent(log) = ByteBits(call.data)
       /\ Count(log, "recv_ack") = 1
       /\ ret = 0

\* C4: a byte sent by send_byte and sampled by recv_byte on the other side
\* is received complete and equal to the byte sent.
C4_LoopbackRoundTrip ==
    call.op = "loop" => buffer = <<call.data>>

\* C5: when a clock wait times out during a call, the call returns the
\* clock-stretch-timeout error, also when the wait is the one inside the
\* stop condition.
C5_TimeoutReported ==
    (call.op \in {"transfer", "addr_read", "addr_write"} /\ WaitTimedOut(log))
    => ret = I2C_ERROR_TIMEOUT

\* C6: a transfer with START that finds SDA low returns the bus-conflict
\* error at once: no line output changes, no address byte, no data byte and
\* no stop condition.
C6_StartConflict ==
    (call.op = "transfer" /\ HasFlag(call.action, I2C_START) /\ SdaLowAtEntry)
    => /\ ret = I2C_ERROR_CONFLICT
       /\ log = <<Ev("transfer", call.action), Ev("start", 0),
                  Ev("phase_ret", I2C_ERROR_CONFLICT)>>
       /\ sda_out[call.bus] = call.sda0
       /\ scl_out[call.bus] = call.scl0
       /\ buffer = call.buf

C6_Witness ==
    /\ call.op = "transfer"
    /\ call.action = I2C_START + I2C_WRITE + I2C_STOP
    /\ Len(call.buf) = 2
    /\ call.peer.idle = 0
    /\ ret = I2C_ERROR_CONFLICT

\* C7: the address byte handed to send_byte is the slave identifier shifted
\* left by one, with bit 0 set exactly when the READ flag is set, whatever
\* the other flags are.
C7_AddressByte ==
    (call.op = "transfer" /\ HasFlag(call.action, I2C_START) /\ ~SdaLowAtEntry)
    => /\ Count(log, "send_addr") = 1
       /\ \A i \in Positions(log, "send_addr") :
             /\ i < Len(log)
             /\ log[i + 1] = Ev("send_byte",
                               2 * SlaveTable[call.slave].id
                                 + (IF HasFlag(call.action, I2C_READ) THEN 1 ELSE 0))
             /\ log[i + 1].v \in 0..255

C7_Witness ==
    /\ call.op = "transfer"
    /\ SlaveTable[call.slave].id = 80
    /\ call.action = I2C_START + I2C_READ
    /\ \E i \in Positions(log, "send_addr") : log[i + 1] = Ev("send_byte", 161)

\* C8: the first I2C_DEVICES_NUM calls of i2c_master_init return non-null,
\* pairwise distinct handles, each bound to the configuration of its own
\* call; every later call returns the null handle and changes no binding.
C8_RegistryCapacity ==
    \A k \in DOMAIN inits :
        IF k <= I2C_DEVICES_NUM
        THEN /\ inits[k].ret # 0
             /\ \A j \in 1..(k - 1) : inits[j].ret # inits[k].ret
             /\ \E slot \in DOMAIN i2c_devices :
                   /\ DevPtr(slot) = inits[k].ret
                   /\ i2c_devices[slot] = [bus |-> inits[k].bus, slave |-> inits[k].slave]
        ELSE inits[k].ret = 0

C8_Witness ==
    /\ Len(inits) = I2C_DEVICES_NUM + 1
    /\ inits[I2C_DEVICES_NUM + 1].ret = 0
    /\ inits[1].slave # inits[2].slave
    /\ inits[3].bus # inits[4].bus
    /\ inits[I2C_DEVICES_NUM + 1].slave # inits[I2C_DEVICES_NUM].slave

\* C9: a transfer begins its phases in the order start, address, data bytes
\* 0 .. size-1, stop, each at most once; a phase that fails is the last thing
\* the transfer does, and its result is what the transfer returns.
C9_PhaseOrderAndAbort ==
    call.op = "transfer"
    => /\ Len(PhasesBegun(log)) <= Len(Plan(call.action, Len(call.buf)))
       /\ \A k \in DOMAIN PhasesBegun(log) :
             PhasesBegun(log)[k].op = Plan(call.action, Len(call.buf))[k]
       /\ \A i \in Positions(log, "data") :
             log[i].v = Cardinality({j \in Positions(log, "data") : j < i})
       /\ \A i \in Positions(log, "phase_ret") :
             log[i].v # I2C_OK => (i = Len(log) /\ ret = log[i].v)
       /\ Len(PhasesBegun(log)) < Len(Plan(call.action, Len(call.buf)))
             => (log # <<>> /\ log[Len(log)].op = "phase_ret" /\ log[Len(log)].v # I2C_OK)

C9_Witness ==
    /\ call.op = "transfer"
    /\ HasFlag(call.action, I2C_START)
    /\ HasFlag(call.action, I2C_STOP)
    /\ Len(call.buf) = 3
    /\ Count(log, "data") = 2
    /\ Count(log, "stop") = 0
    /\ ret # I2C_OK

\* what i2c_master_addr_write does on the inputs and lines of the last call
AddrWriteOfCall ==
    i2c_master_addr_write([sda |-> call.sda0, scl |-> call.scl0, n |-> 0, log |-> <<>>],
                          call.peer, SlaveTable[call.slave], call.addr, call.buf,
                          Len(call.buf))

SameAs(w) ==
    /\ ret = w.ret
    /\ log = w.m.log
    /\ buffer = w.buf
    /\ sda_out[call.bus] = w.m.sda
    /\ scl_out[call.bus] = w.m.scl

\* C10: addr_read does, on the same inputs, what addr_write does and returns
\* the same result: a transfer with START|WRITE of the sub-address bytes and
\* then a transfer with WRITE|STOP that sends the buffer and never writes it.
C10_AddrReadIsAddrWrite ==
    call.op = "addr_read"
    => /\ SameAs(AddrWriteOfCall)
       /\ buffer = call.buf
       /\ Count(log, "recv_byte") = 0
       /\ Values(SelectSeq(log, LAMBDA e : e.op = "transfer"))
             \in {<<I2C_START + I2C_WRITE>>, <<I2C_START + I2C_WRITE, I2C_WRITE + I2C_STOP>>}

C10_Witness ==
    /\ call.op = "addr_read"
    /\ Count(log, "transfer") = 2
    /\ Len(call.buf) = 2
    /\ Count(log, "data") = 2
    /\ Count(log, "send_byte") = 3
    /\ Count(log, "stop") = 1
    /\ ret = 2

----------------------------------------------------------------------------
(* Step-wise claims *)

InCall == xfer.at \notin {"idle", "done"}

\* the bytes a call may transfer: the address byte of a transfer with START
\* and the size data bytes; for addr_read and addr_write the address byte,
\* the sub-address bytes and the size payload bytes
ByteBudget ==
    IF call.op = "transfer"
    THEN Flag01(call.action, I2C_START) + Len(call.buf)
    ELSE 1 + SlaveTable[call.slave].addr_bytes + Len(call.buf)

BitTransfers(l) == Count(l, "send_bit") + Count(l, "recv_bit")

\* C11: every call of transfer, addr_read and addr_write returns, whatever
\* the peer drives and however long it holds SCL low, after at most 9 bit
\* transfers for each byte (the address byte and the size data bytes) and at
\* most one start and one stop condition per transfer.
C11_CallsReturn ==
    /\ [](InCall \/ xfer.at = "done"
          => /\ Count(log, "transfer") <= (IF call.op = "transfer" THEN 1 ELSE 2)
             /\ Count(log, "start") <= 1
             /\ Count(log, "stop") <= 1
             /\ Count(log, "send_byte") + Count(log, "recv_byte") <= ByteBudget
             /\ BitTransfers(log) <= 9 * ByteBudget
             /\ Count(log, "wait") <= 9 * ByteBudget + 1)
    /\ (InCall ~> xfer.at = "done")

\* a write of MaxSize bytes has taken all of its 9 * (1 + MaxSize) bit
\* transfers and its stop condition, the peer holding SCL low in the end
C11_Witness ==
    /\ xfer.at = "done"
    /\ call.op = "transfer"
    /\ HasFlag(call.action, I2C_START) /\ HasFlag(call.action, I2C_STOP)
    /\ Len(call.buf) = MaxSize
    /\ BitTransfers(log) = 9 * (1 + MaxSize)
    /\ Count(log, "stop") = 1
    /\ WaitTimedOut(log)

----------------------------------------------------------------------------
(* The lines during a call, read from its log *)

\* the value of the last op event before position j of the log, init if none
LastBefore(l, j, op, init) ==
    LET S == {i \in 1..(j - 1) : l[i].op = op}
    IN IF S = {} THEN init ELSE l[CHOOSE i \in S : \A k \in S : k <= i].v

\* the master's outputs just before position j of the log of the last call
SclAt(j) == LastBefore(log, j, "scl", call.scl0)

SdaAt(j) == LastBefore(log, j, "sda", call.sda0)

\* the positions at which a bit transfer is entered
BitEntries(l) == Positions(l, "send_bit") \cup Positions(l, "recv_bit")

\* what a bit transfer itself writes to the log
IsLineEvent(e) == e.op \in {"sda", "scl", "wait", "lost"}

\* the position after the last event of the bit transfer entered at j
BitEnd(l, j) ==
    LET S == {e \in (j + 1)..Len(l) : ~IsLineEvent(l[e])}
    IN IF S = {} THEN Len(l) + 1 ELSE CHOOSE e \in S : \A k \in S : e <= k

TimedOutIn(l, j, e) == \E i \in j..(e - 1) : l[i] = Ev("wait", I2C_ERROR_TIMEOUT)

\* C12: a bit transfer that returns anything but the clock-stretch timeout
\* leaves the master driving SCL low, also when send_bit returns on
\* arbitration loss; after recv_bit (so also after the acknowledge that ends
\* send_byte) SDA is released.
C12_BitTransferLeavesSclLow ==
    call.op \in {"send_byte", "recv_byte"}
    => \A j \in BitEntries(log) :
          ~TimedOutIn(log, j, BitEnd(log, j))
          => /\ SclAt(BitEnd(log, j)) = 0
             /\ log[j].op = "recv_bit" => SdaAt(BitEnd(log, j)) = 1

\* an SDA output change at position i of the log
SdaChanges(i) == log[i].op = "sda" /\ log[i].v # SdaAt(i)

\* the high-to-low change made by i2c_master_send_start
IsStartFall(i) == i > 1 /\ log[i - 1].op = "start" /\ log[i] = Ev("sda", 0)

\* the low-to-high change that ends i2c_master_send_stop
IsStopRise(i) == i > 4 /\ log[i - 4].op = "stop" /\ log[i] = Ev("sda", 1)

\* C13: in a transfer that begins with START the master changes its SDA
\* output only while it drives SCL low, except for the high-to-low change of
\* the start condition and the low-to-high change of the stop condition.
C13_SdaChangesWhileSclLow ==
    (call.op = "transfer" /\ HasFlag(call.action, I2C_START))
    => \A i \in DOMAIN log :
          (SdaChanges(i) /\ SclAt(i) # 0) => (IsStartFall(i) \/ IsStopRise(i))

\* C14: send_byte goes on after a bit that lost arbitration, and treats a
\* bit sent normally as success too: a byte sent without arbitration loss
\* and without timeout has its 8 bits sent and reaches its acknowledge.
C14_SendByteReachesAck ==
    call.op = "send_byte"
    => /\ \A i \in Positions(log, "lost") :
             i < Len(log) /\ log[i + 1].op \in {"send_bit", "recv_ack"}
       /\ (Count(log, "lost") = 0 /\ ~WaitTimedOut(log))
             => (Count(log, "send_bit") = 8 /\ Count(log, "recv_ack") = 1)

\* the values stored by recv_byte during the call, in order
StoredBytes(l) == Values(SelectSeq(l, LAMBDA e : e.op = "store"))

\* C15: a recv_byte in which one of the 8 bit receives fails returns that
\* error and stores nothing: a read transfer that aborts in the bit receives
\* of data byte i returns the error and leaves the buffer slots from i on as
\* they were; a write transfer (addr_read and addr_write are write
\* transfers) never modifies the buffer.
C15_FailedReceiveStoresNothing ==
    /\ call.op \in {"addr_read", "addr_write"} => buffer = call.buf
    /\ call.op = "transfer"
       => /\ Len(buffer) = Len(call.buf)
          /\ HasFlag(call.action, I2C_WRITE) => buffer = call.buf
          /\ ~HasFlag(call.action, I2C_WRITE)
             => /\ \A k \in DOMAIN buffer :
                      buffer[k] = IF k <= Len(StoredBytes(log)) THEN StoredBytes(log)[k] ELSE call.buf[k]
                /\ Count(log, "data") > Len(StoredBytes(log))
                   => /\ Count(log, "data") = Len(StoredBytes(log)) + 1
                      /\ ret # I2C_OK
                      /\ ret = (IF WaitTimedOut(log) THEN I2C_ERROR_TIMEOUT ELSE 1)
                      /\ log[Len(log)] = Ev("phase_ret", ret)

\* a read of two bytes received three bits of byte 0, then the clock wait
\* timed out
C15_Witness ==
    /\ call.op = "transfer"
    /\ ~HasFlag(call.action, I2C_WRITE)
    /\ call.buf = <<165, 255>>
    /\ Count(log, "recv_bit") = 4
    /\ Count(log, "store") = 0
    /\ ret = I2C_ERROR_TIMEOUT
    /\ buffer = call.buf

\* the byte the peer of the last call sends in its first 8 clocks
PeerByte == call.peer.first \div 2

\* C16: recv_byte without clock-stretch timeout receives exactly 8 bits,
\* whatever their values, stores the byte assembled most significant bit
\* first, and then sends one acknowledge (bit 0) and no not-acknowledge.
C16_RecvByteStoresAndAcks ==
    (call.op = "recv_byte" /\ ~WaitTimedOut(log))
    => /\ Count(log, "recv_bit") = 8
       /\ buffer = <<PeerByte>>
       /\ Count(log, "send_ack") = 1
       /\ Count(log, "send_nack") = 0
       /\ BitsSent(log) = <<0>>

\* C17: send_stop returns success whatever the lines and the peer do; it
\* drives SDA low, then releases SCL, then releases SDA, and leaves both
\* lines released as i2c_master_init does; so a transfer with START that
\* follows a call that sent its stop condition, the peer not driving SDA,
\* does not fail with bus conflict.
C17_StopReleasesBus ==
    /\ (call.op = "init" /\ ret # 0)
       => (sda_out[call.bus] = 1 /\ scl_out[call.bus] = 1)
    /\ (call.op \in {"transfer", "addr_read", "addr_write"} /\ Count(log, "stop") > 0)
       => /\ \A i \in Positions(log, "stop") :
                /\ Len(log) = i + 5
                /\ log[i + 1] = Ev("sda", 0)
                /\ log[i + 2] = Ev("scl", 1)
                /\ log[i + 3].op = "wait"
                /\ log[i + 4] = Ev("sda", 1)
                /\ log[i + 5] = Ev("phase_ret", I2C_OK)
          /\ sda_out[call.bus] = 1
          /\ scl_out[call.bus] = 1
          /\ ret = Len(call.buf)
    /\ (call.op = "transfer" /\ HasFlag(call.action, I2C_START) /\ call.after_stop
        /\ call.peer.idle = 1)
       => /\ call.sda0 = 1 /\ call.scl0 = 1
          /\ ret # I2C_ERROR_CONFLICT
          /\ Count(log, "send_addr") = 1

\* a transfer with START and STOP that follows a stop condition has sent its
\* start condition, its address byte and its own stop condition
C17_Witness ==
    /\ call.op = "transfer"
    /\ call.after_stop
    /\ HasFlag(call.action, I2C_START) /\ HasFlag(call.action, I2C_STOP)
    /\ call.peer.idle = 1
    /\ Count(log, "send_addr") = 1
    /\ Count(log, "stop") = 1
    /\ ret = Len(call.buf)

\* the log of the first i2c_master_transfer of the call
FirstPhaseLog ==
    LET S == {i \in Positions(log, "transfer") : i > 1}
    IN IF S = {} THEN log ELSE SubSeq(log, 1, (CHOOSE i \in S : \A k \in S : i <= k) - 1)

\* C18: when the first transfer of addr_read or addr_write (start, slave
\* address, sub-address bytes) does not complete all of its phases, no second
\* transfer is made, no stop condition is sent, and the call returns the
\* result of the failed phase.
C18_FirstPhaseFailureAborts ==
    (/\ call.op \in {"addr_read", "addr_write"}
     /\ ~AllPhasesDone(FirstPhaseLog, I2C_START + I2C_WRITE, SlaveTable[call.slave].addr_bytes))
    => /\ Count(log, "transfer") = 1
       /\ Count(log, "stop") = 0
       /\ log[Len(log)] = Ev("phase_ret", ret)
       /\ ret # I2C_OK

IsTransferOp(op) == op \in {"transfer", "addr_read", "addr_write"}

\* C19: under serialized calls the slot counter stays within
\* 0..I2C_DEVICES_NUM and never decreases; a successful init adds exactly 1
\* to it and leaves SDA and SCL of the new device released; a failed init
\* changes neither the counter nor a line; transfer, addr_read and addr_write
\* leave the counter alone; the bus and slave of a handle never change.
C19_RegistryStable ==
    [][/\ i2c_devices_num \in 0..I2C_DEVICES_NUM
       /\ i2c_devices_num' \in 0..I2C_DEVICES_NUM
       /\ i2c_devices_num' >= i2c_devices_num
       /\ \A k \in 0..(i2c_devices_num - 1) : i2c_devices'[k] = i2c_devices[k]
       /\ (call'.op = "init" /\ ret' # 0)
          => /\ i2c_devices_num' = i2c_devices_num + 1
             /\ ret' = DevPtr(i2c_devices_num)
             /\ i2c_devices'[i2c_devices_num] = [bus |-> call'.bus, slave |-> call'.slave]
             /\ sda_out'[call'.bus] = 1
             /\ scl_out'[call'.bus] = 1
       /\ (call'.op = "init" /\ ret' = 0)
          => /\ i2c_devices_num' = i2c_devices_num
             /\ i2c_devices' = i2c_devices
             /\ sda_out' = sda_out
             /\ scl_out' = scl_out
       /\ IsTransferOp(call'.op)
          => /\ i2c_devices_num' = i2c_devices_num
             /\ i2c_devices' = i2c_devices
      ]_vars

\* the table is full of devices with different configurations, a further
\* init has failed while the lines of its bus were driven low, and a
\* transfer has been made since on the first device
C19_Witness ==
    /\ i2c_devices_num = I2C_DEVICES_NUM
    /\ Len(inits) > I2C_DEVICES_NUM
    /\ inits[Len(inits)].ret = 0
    /\ i2c_devices[0] # i2c_devices[1]
    /\ IsTransferOp(call.op)
    /\ call.dev = DevPtr(0)
    /\ scl_out[call.bus] = 0

\* two calls of i2c_master_init have returned the same table slot
SameSlotTwice ==
    \E i, j \in DOMAIN inits : i < j /\ inits[i].ret # 0 /\ inits[i].ret = inits[j].ret

\* a call of i2c_master_init returned a slot that is bound to another call's
\* configuration
BindingLost ==
    \E i \in DOMAIN inits :
       /\ inits[i].ret # 0
       /\ \A slot \in DOMAIN i2c_devices :
             DevPtr(slot) = inits[i].ret
             => i2c_devices[slot] # [bus |-> inits[i].bus, slave |-> inits[i].slave]

\* C20: as long as the calls of i2c_master_init are serialized (none begins
\* while another is in progress) no two calls return the same slot, no
\* binding is overwritten and the counter stays within I2C_DEVICES_NUM;
\* with two calls interleaved such states are reachable.
C20_SerializedInitsAreSafe ==
    ~callers.overlapped
    => /\ ~SameSlotTwice
       /\ ~BindingLost
       /\ i2c_devices_num <= I2C_DEVICES_NUM

\* two interleaved calls returned the same slot, one binding overwrote the
\* other, and later the counter went beyond the table
C20_Witness ==
    /\ callers.overlapped
    /\ SameSlotTwice
    /\ BindingLost
    /\ i2c_devices_num > I2C_DEVICES_NUM
    /\ \A c \in RaceCallers : ~InRace(c)

====
